---- MODULE Spec2Model ----
(***************************************************************************)
(* Escape-time fractal pipeline of the fractals crate: the complex step    *)
(* and escape test, the two generators, choose_color, Grid::new, the       *)
(* parallel sampler and the zoom controller of the interactive front end.  *)
(*                                                                         *)
(* f64 values are modelled as binary floating-point numbers m * 2^e with   *)
(* a significand of MantBits bits (53 in the program), unbounded exponent, *)
(* round-to-nearest-even after every operation, and the two infinities and *)
(* NaN.  The sign of zero is not modelled.                                 *)
(***************************************************************************)
EXTENDS Integers, Sequences, FiniteSets, TLC

\* Significand width of the modelled f64 (the program's is 53).
MantBits == 10

----------------------------------------------------------------------------
\* f64 arithmetic

Abs(n) == IF n < 0 THEN -n ELSE n

Sgn(n) == IF n < 0 THEN -1 ELSE IF n = 0 THEN 0 ELSE 1

RECURSIVE Pow2(_)
Pow2(n) == IF n <= 0 THEN 1 ELSE 2 * Pow2(n - 1)

RECURSIVE BitLen(_)
BitLen(n) == IF n <= 0 THEN 0 ELSE 1 + BitLen(n \div 2)

Fin(m, e) == [k |-> "fin", m |-> m, e |-> e]

NaN == [k |-> "nan", m |-> 0, e |-> 0]

Inf(s) == [k |-> "inf", m |-> s, e |-> 0]

\* The canonical form of the finite value m * 2^e: m odd, or zero.
RECURSIVE Norm(_, _)
Norm(m, e) ==
    IF m = 0 THEN Fin(0, 0)
    ELSE IF m % 2 = 0 THEN Norm(m \div 2, e + 1)
    ELSE Fin(m, e)

\* n * 2^e rounded to MantBits significant bits, ties to even.
Round(n, e) ==
    LET a == Abs(n)
        s == BitLen(a) - MantBits
    IN  IF s <= 0 THEN Norm(n, e)
        ELSE LET q  == a \div Pow2(s)
                 r  == a % Pow2(s)
                 h  == Pow2(s - 1)
                 up == r > h \/ (r = h /\ q % 2 = 1)
             IN  Norm(Sgn(n) * (IF up THEN q + 1 ELSE q), e + s)

\* `n as f64` for an integer n.
FromInt(n) == Round(n, 0)

F0 == Fin(0, 0)

FNeg(x) == IF x.k = "nan" THEN NaN ELSE [x EXCEPT !.m = -x.m]

IsZero(x) == x.k = "fin" /\ x.m = 0

\* Position of the leading bit of a non-zero finite value.
Top(x) == BitLen(Abs(x.m)) + x.e

\* The sum of two non-zero finite values, |a| having the higher leading bit.
\* b is aligned to a's guard digits; bits of b below them are kept as a
\* sticky bit.
AddAligned(a, b) ==
    LET F  == Top(a) - (MantBits + 4)
        na == a.m * Pow2(a.e - F)
        nb == IF b.e >= F THEN b.m * Pow2(b.e - F)
              ELSE LET t == IF F - b.e > MantBits THEN 0
                            ELSE Abs(b.m) \div Pow2(F - b.e)
                   IN  Sgn(b.m) * (IF t % 2 = 0 THEN t + 1 ELSE t)
    IN  Round(na + nb, F)

FAdd(x, y) ==
    IF x.k = "nan" \/ y.k = "nan" THEN NaN
    ELSE IF x.k = "inf" /\ y.k = "inf" THEN (IF x.m = y.m THEN x ELSE NaN)
    ELSE IF x.k = "inf" THEN x
    ELSE IF y.k = "inf" THEN y
    ELSE IF x.m = 0 THEN y
    ELSE IF y.m = 0 THEN x
    ELSE IF Top(x) >= Top(y) THEN AddAligned(x, y)
    ELSE AddAligned(y, x)

FSub(x, y) == FAdd(x, FNeg(y))

FMul(x, y) ==
    IF x.k = "nan" \/ y.k = "nan" THEN NaN
    ELSE IF x.k = "inf" \/ y.k = "inf"
         THEN (IF IsZero(x) \/ IsZero(y) THEN NaN ELSE Inf(Sgn(x.m) * Sgn(y.m)))
    ELSE Round(x.m * y.m, x.e + y.e)

FDiv(x, y) ==
    IF x.k = "nan" \/ y.k = "nan" THEN NaN
    ELSE IF x.k = "inf"
         THEN (IF y.k = "inf" THEN NaN
               ELSE Inf(x.m * (IF y.m < 0 THEN -1 ELSE 1)))
    ELSE IF y.k = "inf" THEN F0
    ELSE IF y.m = 0 THEN (IF x.m = 0 THEN NaN ELSE Inf(Sgn(x.m)))
    ELSE IF x.m = 0 THEN F0
    ELSE LET a == Abs(x.m)
             b == Abs(y.m)
             s == MantBits + BitLen(b) - BitLen(a) + 1
             q == (a * Pow2(s)) \div b
             r == (a * Pow2(s)) % b
         IN  Round(Sgn(x.m) * Sgn(y.m) * (2 * q + (IF r > 0 THEN 1 ELSE 0)),
                   x.e - y.e - s - 1)

\* x < y on f64: false whenever either side is NaN.
FLt(x, y) ==
    IF x.k = "nan" \/ y.k = "nan" THEN FALSE
    ELSE IF x = y THEN FALSE
    ELSE FSub(y, x).m > 0

\* `x as i32`: truncation toward zero, NaN to 0, saturating.
I32Max == 2147483647

ToI32(x) ==
    IF x.k = "nan" THEN 0
    ELSE IF x.k = "inf" THEN (IF x.m > 0 THEN I32Max ELSE -I32Max - 1)
    ELSE IF x.m = 0 \/ Top(x) <= 0 THEN 0
    ELSE IF Top(x) > 31 THEN (IF x.m > 0 THEN I32Max ELSE -I32Max - 1)
    ELSE IF x.e >= 0 THEN x.m * Pow2(x.e)
    ELSE Sgn(x.m) * (Abs(x.m) \div Pow2(-x.e))

----------------------------------------------------------------------------
\* Point, the quadratic step and the escape test

Pt(x, y) == [re |-> x, im |-> y]

\* Point::next(Point(u, v), Point(x, y)) = Point(x*x - y*y + u, 2.0*x*y + v)
next(c, z) ==
    Pt(FAdd(FSub(FMul(z.re, z.re), FMul(z.im, z.im)), c.re),
       FAdd(FMul(FMul(FromInt(2), z.re), z.im), c.im))

\* Point::fairly_close(Point(u, v)) = (u*u + v*v) < 100.0
fairly_close(p) ==
    FLt(FAdd(FMul(p.re, p.re), FMul(p.im, p.im)), FromInt(100))

----------------------------------------------------------------------------
\* Iterators over Points: a vector's into_iter(), or the scan adaptor the
\* generators return (an accumulator stepped by next with a fixed constant).

VecIter(pts) == [kind |-> "vec", pts |-> pts, c |-> Pt(F0, F0), acc |-> Pt(F0, F0)]

ScanIter(c, seed) == [kind |-> "scan", pts |-> <<>>, c |-> c, acc |-> seed]

\* (mutant) scan yields the accumulator as it was before the step.
IterNextStale(it) ==
    IF it.kind = "vec"
    THEN IF it.pts = <<>>
         THEN [some |-> FALSE, val |-> Pt(F0, F0), it |-> it]
         ELSE [some |-> TRUE, val |-> Head(it.pts),
               it |-> [it EXCEPT !.pts = Tail(it.pts)]]
    ELSE [some |-> TRUE, val |-> it.acc,
          it |-> [it EXCEPT !.acc = next(it.c, it.acc)]]

\* Iterator::next: [some, val, it] with `it` the iterator afterwards.
IterNext(it) ==
    IF it.kind = "vec"
    THEN IF it.pts = <<>>
         THEN [some |-> FALSE, val |-> Pt(F0, F0), it |-> it]
         ELSE [some |-> TRUE, val |-> Head(it.pts),
               it |-> [it EXCEPT !.pts = Tail(it.pts)]]
    ELSE LET a == next(it.c, it.acc)
         IN  [some |-> TRUE, val |-> a, it |-> [it EXCEPT !.acc = a]]

Mandelbrot(z) == [kind |-> "mandelbrot", z |-> z]

Julia(z) == [kind |-> "julia", z |-> z]

\* Generator::generate: Mandelbrot scans from its own z with the sampled
\* point as constant; Julia scans from the sampled point with z as constant.
generate(g, p) ==
    IF g.kind = "mandelbrot" THEN ScanIter(p, g.z) ELSE ScanIter(g.z, p)

----------------------------------------------------------------------------
\* choose_color, one zip/take_while/fold step at a time

\* A choose_color call that has not started.
\* args keeps the two arguments of the call as they were passed.
CCIdle(palette, it) ==
    [pc |-> "start", palette |-> palette, iter |-> it, acc |-> 0, pulls |-> 0,
     args |-> [palette |-> palette, iter |-> it]]

\* (mutant) the first item is taken with next() instead of peek().
CCStartConsuming(st) ==
    IF st.palette = <<>> THEN [st EXCEPT !.pc = "panic"]
    ELSE [st EXCEPT !.pc = "fold", !.acc = Head(st.palette),
                    !.palette = Tail(st.palette)]

\* palette.peekable(); first = *palette.peek().unwrap()
CCStart(st) ==
    IF st.palette = <<>> THEN [st EXCEPT !.pc = "panic"]
    ELSE [st EXCEPT !.pc = "fold", !.acc = Head(st.palette)]

\* (mutant) the fold also takes the colour paired with the escaping iterate.
CCStepInclusive(st) ==
    IF st.palette = <<>> THEN [st EXCEPT !.pc = "done"]
    ELSE LET c == Head(st.palette)
             n == IterNext(st.iter)
         IN  IF ~n.some
             THEN [st EXCEPT !.pc = "done", !.palette = Tail(st.palette)]
             ELSE IF fairly_close(n.val)
             THEN [st EXCEPT !.palette = Tail(st.palette), !.iter = n.it,
                             !.acc = c, !.pulls = st.pulls + 1]
             ELSE [st EXCEPT !.pc = "done", !.palette = Tail(st.palette),
                             !.iter = n.it, !.acc = c, !.pulls = st.pulls + 1]

\* (mutant) the zip is iter.zip(palette): the iterate is pulled before the
\* palette is found to be exhausted.
CCStepIterFirst(st) ==
    LET n == IterNext(st.iter)
    IN  IF ~n.some THEN [st EXCEPT !.pc = "done"]
        ELSE IF st.palette = <<>>
        THEN [st EXCEPT !.pc = "done", !.iter = n.it, !.pulls = st.pulls + 1]
        ELSE IF fairly_close(n.val)
        THEN [st EXCEPT !.palette = Tail(st.palette), !.iter = n.it,
                        !.acc = Head(st.palette), !.pulls = st.pulls + 1]
        ELSE [st EXCEPT !.pc = "done", !.palette = Tail(st.palette),
                        !.iter = n.it, !.pulls = st.pulls + 1]

\* One round of palette.zip(iter).take_while(fairly_close).fold(first, ..):
\* zip takes the palette item first and stops there when there is none;
\* take_while stops at the first iterate that is not fairly close.
CCStep(st) ==
    IF st.palette = <<>> THEN [st EXCEPT !.pc = "done"]
    ELSE LET c == Head(st.palette)
             n == IterNext(st.iter)
         IN  IF ~n.some
             THEN [st EXCEPT !.pc = "done", !.palette = Tail(st.palette)]
             ELSE IF fairly_close(n.val)
             THEN [st EXCEPT !.palette = Tail(st.palette), !.iter = n.it,
                             !.acc = c, !.pulls = st.pulls + 1]
             ELSE [st EXCEPT !.pc = "done", !.palette = Tail(st.palette),
                             !.iter = n.it, !.pulls = st.pulls + 1]

RECURSIVE CCRun(_)
CCRun(st) == IF st.pc = "fold" THEN CCRun(CCStep(st)) ELSE st

\* The finished call: pc = "done" with the colour in acc, or pc = "panic".
choose_color(palette, it) == CCRun(CCStart(CCIdle(palette, it)))

----------------------------------------------------------------------------
\* Grid::new

\* `(count - 1) as f64` on usize. With overflow checks off, 0 - 1 wraps to
\* usize::MAX, which converts to 2^64.
USizePredAsF64(count) == IF count = 0 THEN Fin(1, 64) ELSE FromInt(count - 1)

\* (mutant) the spread divides by the count instead of count - 1.
GridSpreadByCount(lo, hi, count) == FDiv(FSub(hi, lo), FromInt(count))

\* y_spread = (y_max - y_min) / (row - 1) as f64, and likewise x_spread.
GridSpread(lo, hi, count) == FDiv(FSub(hi, lo), USizePredAsF64(count))

\* The two assertions on the bounding box.
\* (mutant) the assertions accept an empty axis: <= in place of <.
GridAssertsLax(min, max) ==
    /\ (FLt(min.re, max.re) \/ min.re = max.re)
    /\ (FLt(min.im, max.im) \/ min.im = max.im)

GridAsserts(min, max) == FLt(min.re, max.re) /\ FLt(min.im, max.im)

GridPanic == [panic |-> TRUE, rows |-> <<>>]

\* Grid::new(col, row, min, max). `checked` says whether the build has
\* integer overflow checks on (count - 1 on a zero count then panics).
Grid_new(col, row, min, max, checked) ==
    IF ~GridAsserts(min, max) THEN GridPanic
    ELSE IF checked /\ (row = 0 \/ col = 0) THEN GridPanic
    ELSE LET y_spread == GridSpread(min.im, max.im, row)
             x_spread == GridSpread(min.re, max.re, col)
         IN  [panic |-> FALSE,
              rows  |-> [r \in 1..row |->
                          [c \in 1..col |->
                            Pt(FAdd(FMul(x_spread, FromInt(c - 1)), min.re),
                               FAdd(FMul(y_spread, FromInt(r - 1)), min.im))]]]

----------------------------------------------------------------------------
\* Palettes, make_image and the parallel sampler

RECURSIVE Reverse(_)
Reverse(q) == IF q = <<>> THEN <<>> ELSE Append(Reverse(Tail(q)), Head(q))

CharPalette(ramp) == [kind |-> "char", ramp |-> ramp]

RGBPalette(ramp) == [kind |-> "rgb", ramp |-> ramp]

\* Palette::get: the characters of the ramp in order; for the RGB palette
\* the decoded ramp chained with its reverse.
Palette_get(pal) ==
    IF pal.kind = "rgb" THEN pal.ramp \o Reverse(pal.ramp) ELSE pal.ramp

\* make_image(generator, palette, p): the finished choose_color call.
make_image(g, pal, p) == choose_color(Palette_get(pal), generate(g, p))

\* The cells of a grid, and their row-major order.
Cells(rows) == {<<r, c>> : r \in 1..Len(rows), c \in 1..(IF rows = <<>> THEN 0 ELSE Len(rows[1]))}

CellsBefore(rows, cell) ==
    {d \in Cells(rows) : d[1] < cell[1] \/ (d[1] = cell[1] /\ d[2] < cell[2])}

\* (mutant) results are pushed in the order the tasks finish.
CollectInArrivalOrder(rows, out, cell, v) ==
    LET k    == Cardinality(DOMAIN out)
        slot == CHOOSE d \in Cells(rows) : Cardinality(CellsBefore(rows, d)) = k
    IN  out @@ (slot :> v)

\* collect() of an indexed parallel iterator: the result of the item at
\* (r, c) is written to position (r, c), whenever its task finishes.
Collect(rows, out, cell, v) == out @@ (cell :> v)

\* sample(grid, generator, palette) as a function of its arguments: the
\* grid every schedule of the tasks collects.
sample(rows, g, pal) ==
    [r \in 1..Len(rows) |->
        [c \in 1..Len(rows[r]) |-> make_image(g, pal, rows[r][c]).acc]]

----------------------------------------------------------------------------
\* Images and the RGB renderer

\* The canvas is RGB_WIDTH x RGB_HEIGHT (960 x 640 in the program), and so
\* are the grids the render callback builds.
RGB_WIDTH == 5

RGB_HEIGHT == 4

\* The canvas never asks for hidpi: the device pixel ratio stays 1.0.
Dpi == 1

info == [width |-> RGB_WIDTH, height |-> RGB_HEIGHT, dpi |-> FromInt(Dpi)]

Black == <<0, 0, 0>>

highlight_color == <<0, 255, 0>>

\* The OrRd ramp of 9 colours, decoded.
OrRd9 ==
    << <<255, 247, 236>>, <<254, 232, 200>>, <<253, 212, 158>>,
       <<253, 187, 132>>, <<252, 141, 89>>, <<239, 101, 72>>,
       <<215, 48, 31>>, <<179, 0, 0>>, <<127, 0, 0>> >>

Image_new(w, h) == [width |-> w, height |-> h, pixels |-> [i \in 1..(w * h) |-> Black]]

\* (mutant) the clone is a new image of the same size, nothing copied.
Image_cloneBlank(img) == Image_new(img.width, img.height)

\* ManualClone::clone: a new image of the same size, every pixel copied.
Image_clone(img) ==
    [width |-> img.width, height |-> img.height,
     pixels |-> [i \in 1..Len(img.pixels) |-> img.pixels[i]]]

\* (mutant) the sizes are asserted equal and nothing is copied.
clone_ontoNothing(self, other) ==
    [panic |-> ~(self.width = other.width /\ self.height = other.height),
     image |-> other]

\* ManualClone::clone_onto(self, other): asserts equal sizes, then copies.
clone_onto(self, other) ==
    IF ~(self.width = other.width /\ self.height = other.height)
    THEN [panic |-> TRUE, image |-> other]
    ELSE [panic |-> FALSE, image |-> [other EXCEPT !.pixels = self.pixels]]

\* RGBRenderer::render: pixel i takes grid[i / width][i % width].
RGBRenderer_render(img, grid) ==
    [img EXCEPT !.pixels =
        [i \in 1..Len(img.pixels) |->
            grid[((i - 1) \div img.width) + 1][((i - 1) % img.width) + 1]]]

\* image[XY(x, y)] = colour, one write after another: the writes before the
\* first index outside the buffer are done, that one panics.
RECURSIVE WritePixels(_, _, _)
WritePixels(img, writes, colour) ==
    IF writes = <<>> THEN [panic |-> FALSE, image |-> img]
    ELSE LET i == Head(writes)[2] * img.width + Head(writes)[1]
         IN  IF i >= Len(img.pixels) THEN [panic |-> TRUE, image |-> img]
             ELSE WritePixels([img EXCEPT !.pixels[i + 1] = colour],
                              Tail(writes), colour)

\* The writes of the two loops that draw the box, in program order.
BoxWrites(start_x, end_x, start_y, end_y) ==
    LET nx == IF end_x > start_x THEN end_x - start_x ELSE 0
        ny == IF end_y > start_y THEN end_y - start_y ELSE 0
        xs == [k \in 1..(2 * nx) |->
                 IF k % 2 = 1 THEN <<start_x + (k - 1) \div 2, start_y>>
                 ELSE <<start_x + (k - 1) \div 2, end_y>>]
        ys == [k \in 1..(2 * ny) |->
                 IF k % 2 = 1 THEN <<start_x, start_y + (k - 1) \div 2>>
                 ELSE <<end_x, start_y + (k - 1) \div 2>>]
    IN  xs \o ys

----------------------------------------------------------------------------
\* The zoom controller: CanvasState, handle_input, zoomable_canvas_render

Position_new == [virtual_x |-> 0, virtual_y |-> 0, x |-> 0, y |-> 0]

CanvasDims(min, max) == [min |-> min, max |-> max]

Recalc(min, max) == [tag |-> "Recalc", min |-> min, max |-> max]

Done(min, max, pos, img) ==
    [tag |-> "Done", min |-> min, max |-> max, pos |-> pos, image |-> img]

Dragging(initial_click, current, dims, img) ==
    [tag |-> "Dragging", initial_click |-> initial_click, current |-> current,
     dims |-> dims, image |-> img]

\* Left press in Done: enter zoom selection at the cursor position.
OnLeftPress(rs) ==
    Dragging(rs.pos, rs.pos, CanvasDims(rs.min, rs.max), Image_clone(rs.image))

\* (mutant) the pixel row is the window row, not flipped.
OnCursorMovedNoFlip(inf, x, y) ==
    [virtual_x |-> x, virtual_y |-> y,
     x |-> ToI32(FMul(FromInt(x), inf.dpi)),
     y |-> ToI32(FMul(FromInt(y), inf.dpi))]

\* Cursor moved to virtual (x, y): the position in both coordinate spaces.
OnCursorMoved(inf, x, y) ==
    [virtual_x |-> x, virtual_y |-> y,
     x |-> ToI32(FMul(FromInt(x), inf.dpi)),
     y |-> ToI32(FMul(FromInt(inf.height - y), inf.dpi))]

\* (mutant) the released rectangle is scaled from the origin, without the
\* offset of the old minimum.
OnLeftReleaseNoOffset(inf, d) ==
    LET min_x == IF d.current.x < d.initial_click.x THEN d.current.x ELSE d.initial_click.x
        max_x == IF d.current.x < d.initial_click.x THEN d.initial_click.x ELSE d.current.x
        min_y == IF d.current.y < d.initial_click.y THEN d.current.y ELSE d.initial_click.y
        max_y == IF d.current.y < d.initial_click.y THEN d.initial_click.y ELSE d.current.y
        x_ratio == FDiv(FSub(d.dims.max.re, d.dims.min.re), FromInt(inf.width))
        y_ratio == FDiv(FSub(d.dims.max.im, d.dims.min.im), FromInt(inf.height))
    IN  Recalc(Pt(FMul(FromInt(min_x), x_ratio), FMul(FromInt(min_y), y_ratio)),
               Pt(FMul(FromInt(max_x), x_ratio), FMul(FromInt(max_y), y_ratio)))

\* Left release in Dragging: the new bounding box from the drag rectangle.
OnLeftRelease(inf, d) ==
    LET min_x == IF d.current.x < d.initial_click.x THEN d.current.x ELSE d.initial_click.x
        max_x == IF d.current.x < d.initial_click.x THEN d.initial_click.x ELSE d.current.x
        min_y == IF d.current.y < d.initial_click.y THEN d.current.y ELSE d.initial_click.y
        max_y == IF d.current.y < d.initial_click.y THEN d.initial_click.y ELSE d.current.y
        x_ratio == FDiv(FSub(d.dims.max.re, d.dims.min.re), FromInt(inf.width))
        y_ratio == FDiv(FSub(d.dims.max.im, d.dims.min.im), FromInt(inf.height))
    IN  Recalc(Pt(FAdd(FMul(FromInt(min_x), x_ratio), d.dims.min.re),
                  FAdd(FMul(FromInt(min_y), y_ratio), d.dims.min.im)),
               Pt(FAdd(FMul(FromInt(max_x), x_ratio), d.dims.min.re),
                  FAdd(FMul(FromInt(max_y), y_ratio), d.dims.min.im)))

\* (mutant) the reset re-uses the box on display.
OnRightPressKeepsView(dims, rs) == Recalc(rs.min, rs.max)

\* Right press in Done: back to the view passed at construction.
OnRightPress(dims, rs) == Recalc(dims.min, dims.max)

\* (mutant) a left release is also taken in Done, as a full redraw.
handle_inputReleaseInDone(inf, dims, rs, ev) ==
    IF ev.kind = "DeviceEvent" THEN [render_state |-> rs, ret |-> FALSE]
    ELSE IF ev.kind = "LeftPress" /\ rs.tag = "Done"
    THEN [render_state |-> OnLeftPress(rs), ret |-> FALSE]
    ELSE IF ev.kind = "CursorMoved" /\ rs.tag = "Dragging"
    THEN [render_state |-> [rs EXCEPT !.current = OnCursorMoved(inf, ev.x, ev.y)],
          ret |-> FALSE]
    ELSE IF ev.kind = "CursorMoved" /\ rs.tag = "Done"
    THEN [render_state |-> [rs EXCEPT !.pos = OnCursorMoved(inf, ev.x, ev.y)],
          ret |-> FALSE]
    ELSE IF ev.kind = "LeftRelease" /\ rs.tag = "Dragging"
    THEN [render_state |-> OnLeftRelease(inf, rs), ret |-> TRUE]
    ELSE IF ev.kind = "LeftRelease" /\ rs.tag = "Done"
    THEN [render_state |-> Recalc(rs.min, rs.max), ret |-> TRUE]
    ELSE IF ev.kind = "RightPress" /\ rs.tag = "Done"
    THEN [render_state |-> OnRightPress(dims, rs), ret |-> TRUE]
    ELSE [render_state |-> rs, ret |-> FALSE]

\* (mutant) a left press in Dragging moves the anchor to the cursor.
handle_inputPressInDragging(inf, dims, rs, ev) ==
    IF ev.kind = "DeviceEvent" THEN [render_state |-> rs, ret |-> FALSE]
    ELSE IF ev.kind = "LeftPress" /\ rs.tag = "Done"
    THEN [render_state |-> OnLeftPress(rs), ret |-> FALSE]
    ELSE IF ev.kind = "LeftPress" /\ rs.tag = "Dragging"
    THEN [render_state |-> [rs EXCEPT !.initial_click = rs.current], ret |-> FALSE]
    ELSE IF ev.kind = "CursorMoved" /\ rs.tag = "Dragging"
    THEN [render_state |-> [rs EXCEPT !.current = OnCursorMoved(inf, ev.x, ev.y)],
          ret |-> FALSE]
    ELSE IF ev.kind = "CursorMoved" /\ rs.tag = "Done"
    THEN [render_state |-> [rs EXCEPT !.pos = OnCursorMoved(inf, ev.x, ev.y)],
          ret |-> FALSE]
    ELSE IF ev.kind = "LeftRelease" /\ rs.tag = "Dragging"
    THEN [render_state |-> OnLeftRelease(inf, rs), ret |-> TRUE]
    ELSE IF ev.kind = "RightPress" /\ rs.tag = "Done"
    THEN [render_state |-> OnRightPress(dims, rs), ret |-> TRUE]
    ELSE [render_state |-> rs, ret |-> FALSE]

\* CanvasState::handle_input(info, state, event): the new render_state and
\* the value returned. Events that are not window events return at once;
\* the others are matched with the state, first arm first.
handle_input(inf, dims, rs, ev) ==
    IF ev.kind = "DeviceEvent" THEN [render_state |-> rs, ret |-> FALSE]
    ELSE IF ev.kind = "LeftPress" /\ rs.tag = "Done"
    THEN [render_state |-> OnLeftPress(rs), ret |-> FALSE]
    ELSE IF ev.kind = "CursorMoved" /\ rs.tag = "Dragging"
    THEN [render_state |-> [rs EXCEPT !.current = OnCursorMoved(inf, ev.x, ev.y)],
          ret |-> FALSE]
    ELSE IF ev.kind = "CursorMoved" /\ rs.tag = "Done"
    THEN [render_state |-> [rs EXCEPT !.pos = OnCursorMoved(inf, ev.x, ev.y)],
          ret |-> FALSE]
    ELSE IF ev.kind = "LeftRelease" /\ rs.tag = "Dragging"
    THEN [render_state |-> OnLeftRelease(inf, rs), ret |-> TRUE]
    ELSE IF ev.kind = "RightPress" /\ rs.tag = "Done"
    THEN [render_state |-> OnRightPress(dims, rs), ret |-> TRUE]
    ELSE [render_state |-> rs, ret |-> FALSE]

\* The Dragging arm of the render callback: the snapshot copied onto the
\* output buffer, then the box outline.
RenderDragging(rs, img) ==
    LET cp == clone_onto(rs.image, img)
        ic == rs.initial_click
        cu == rs.current
        start_x == IF ic.x < cu.x THEN ic.x ELSE cu.x
        end_x   == IF ic.x < cu.x THEN cu.x ELSE ic.x
        start_y == IF ic.y < cu.y THEN ic.y ELSE cu.y
        end_y   == IF ic.y < cu.y THEN cu.y ELSE ic.y
        wr == WritePixels(cp.image, BoxWrites(start_x, end_x, start_y, end_y),
                          highlight_color)
    IN  IF cp.panic THEN [panic |-> "clone_onto", image |-> cp.image]
        ELSE [panic |-> IF wr.panic THEN "index" ELSE "none", image |-> wr.image]

\* The Recalc arm: a fresh grid over [min, max], sampled and rendered.
RenderRecalc(g, pal, rs, img) ==
    LET grid == Grid_new(RGB_WIDTH, RGB_HEIGHT, Pt(rs.min.re, rs.min.im),
                         Pt(rs.max.re, rs.max.im), TRUE)
    IN  IF grid.panic THEN [panic |-> "Grid::new", image |-> img]
        ELSE [panic |-> "none",
              image |-> RGBRenderer_render(img, sample(grid.rows, g, pal))]

\* The closure zoomable_canvas_render returns, called with the canvas state
\* and the output buffer: [panic, render_state, image] afterwards, panic
\* naming the assertion or bounds check that ended the program, if any.
zoomable_canvas_render(g, pal, rs, img) ==
    LET drawn == IF rs.tag = "Dragging" THEN RenderDragging(rs, img)
                 ELSE IF rs.tag = "Recalc" THEN RenderRecalc(g, pal, rs, img)
                 ELSE [panic |-> "none", image |-> img]
    IN  IF drawn.panic # "none"
        THEN [panic |-> drawn.panic, render_state |-> rs, image |-> drawn.image]
        ELSE IF rs.tag = "Recalc"
        THEN [panic |-> "none", image |-> drawn.image,
              render_state |-> Done(rs.min, rs.max, Position_new,
                                    Image_clone(drawn.image))]
        ELSE [panic |-> "none", render_state |-> rs, image |-> drawn.image]

----------------------------------------------------------------------------
\* Bounds of the choose_color runs

MaxPalette == 4

MaxPoints == 6

Near == Pt(F0, F0)

Far == Pt(FromInt(8), FromInt(8))

RECURSIVE SeqsUpTo(_, _)
SeqsUpTo(S, n) ==
    IF n = 0 THEN {<<>>}
    ELSE LET R == SeqsUpTo(S, n - 1)
         IN  R \cup {Append(q, x) : q \in {r \in R : Len(r) = n - 1}, x \in S}

\* The palettes [0, 1, .., n-1], the empty one included.
Palettes == {[i \in 1..n |-> i - 1] : n \in 0..MaxPalette}

PointVecs == SeqsUpTo({Near, Far}, MaxPoints)

\* Bounds of the Grid::new calls

MaxDim == 8

\* x / 2^s as a float.
Dy(x, s) == Round(x, -s)

\* Corner points: those of the program's initial views among them.
GridPts ==
    {Pt(Dy(-9, 2), Dy(-3, 1)), Pt(Dy(3, 2), Dy(3, 1)),
     Pt(Dy(-3, 1), Dy(-3, 1)), Pt(Dy(3, 1), Dy(3, 1)),
     Pt(F0, F0), Pt(FromInt(2), FromInt(2)),
     Pt(F0, FromInt(2)), Pt(FromInt(2), F0)}

\* Bounds of the generator runs

MaxPulls == 5

\* 0.32 and 0.043, the default Julia parameters.
JuliaP == FDiv(FromInt(32), FromInt(100))

JuliaZ == FDiv(FromInt(43), FromInt(1000))

GenPts == {Pt(F0, F0), Pt(Dy(1, 1), F0), Pt(JuliaP, JuliaZ),
           Pt(Dy(-3, 2), Dy(1, 2)), Pt(FromInt(2), FromInt(2))}

\* Bounds of the sampler runs

\* The columns of the sampled grids, which have two rows.
SampleMax == 2

\* The threads of the pool.
NumWorkers == 2

SampleBoxes ==
    {<<Pt(Dy(-9, 2), Dy(-3, 1)), Pt(Dy(3, 2), Dy(3, 1))>>,
     <<Pt(Dy(-3, 1), Dy(-3, 1)), Pt(Dy(3, 1), Dy(3, 1))>>,
     <<Pt(F0, F0), Pt(FromInt(2), FromInt(2))>>}

SampleGenerators == {Mandelbrot(Pt(F0, F0)), Julia(Pt(JuliaP, JuliaZ))}

SamplePalettes == {CharPalette(<<0, 1, 2, 3>>), RGBPalette(<<0, 1, 2>>)}

----------------------------------------------------------------------------
VARIABLES
    cc,     \* the choose_color call in progress
    gn,     \* the Grid::new call: its arguments and what it returned
    gen,    \* a generator, the sequence it returned and the items pulled
    smp,    \* the sample call: its arguments, its tasks and its result
    initial_dims,   \* CanvasState.initial_dims
    render_state,   \* CanvasState.render_state
    generator,      \* the generator the render closure captured
    image,          \* the output buffer the canvas hands to the render callback
    last,           \* the last callback: its event, what it returned, the drag it ended
    zooms,          \* the zooms made so far
    panicked        \* "none", or the check that ended the program

ctl == <<initial_dims, render_state, generator, image, last, zooms, panicked>>

vars == <<cc, gn, gen, smp, initial_dims, render_state, generator, image, last,
          zooms, panicked>>

GNIdle == [pc |-> "start", col |-> 0, row |-> 0, min |-> Pt(F0, F0),
           max |-> Pt(F0, F0), rows |-> <<>>]

CCIdle0 == CCIdle(<<>>, VecIter(<<>>))

GenIdle(g, p) == [pc |-> "start", g |-> g, p |-> p, it |-> VecIter(<<>>), out |-> <<>>]

GenIdle0 == GenIdle(Mandelbrot(Pt(F0, F0)), Pt(F0, F0))

SmpIdle(rows, g, pal) ==
    [pc |-> "start", grid |-> rows, generator |-> g, palette |-> pal,
     args |-> [grid |-> rows, generator |-> g, palette |-> pal],
     items |-> <<>>, todo |-> {}, running |-> {}, out |-> <<>>, result |-> <<>>]

SmpIdle0 == SmpIdle(<<>>, Mandelbrot(Pt(F0, F0)), CharPalette(<<0>>))

\* The two programs main builds: the generator and the view it starts with.
MainGenerators == {Mandelbrot(Pt(F0, F0)), Julia(Pt(JuliaP, JuliaZ))}

MainBox(g) ==
    IF g.kind = "mandelbrot"
    THEN CanvasDims(Pt(Dy(-9, 2), Dy(-3, 1)), Pt(Dy(3, 2), Dy(3, 1)))
    ELSE CanvasDims(Pt(Dy(-3, 1), Dy(-3, 1)), Pt(Dy(3, 1), Dy(3, 1)))

NoDrag == [tag |-> "none"]

\* CanvasState::new(min, max) and the canvas around it, before any callback.
CtlNew(g) ==
    /\ generator = g
    /\ initial_dims = MainBox(g)
    /\ render_state = Recalc(MainBox(g).min, MainBox(g).max)
    /\ image = Image_new(RGB_WIDTH, RGB_HEIGHT)
    /\ last = [op |-> "new", ret |-> FALSE, drag |-> NoDrag]
    /\ zooms = 0
    /\ panicked = "none"

CtlIdle == CtlNew(Mandelbrot(Pt(F0, F0)))

----------------------------------------------------------------------------
\* choose_color on its own (SpecColor)

\* choose_color(palette.into_iter(), points.into_iter())
InitColor ==
    /\ CtlIdle
    /\ \E P \in Palettes, pts \in PointVecs : cc = CCIdle(P, VecIter(pts))
    /\ gn = GNIdle /\ gen = GenIdle0 /\ smp = SmpIdle0

CCCall == cc.pc = "start" /\ cc' = CCStart(cc) /\ UNCHANGED <<gn, gen, smp, ctl>>

CCFold == cc.pc = "fold" /\ cc' = CCStep(cc) /\ UNCHANGED <<gn, gen, smp, ctl>>

NextColor == CCCall \/ CCFold

SpecColor == InitColor /\ [][NextColor]_vars

----------------------------------------------------------------------------
\* Claims about choose_color (SpecColor)

\* The number of leading fairly-close points of a vector.
RECURSIVE NearPrefix(_)
NearPrefix(pts) ==
    IF pts = <<>> \/ ~fairly_close(Head(pts)) THEN 0
    ELSE 1 + NearPrefix(Tail(pts))

CCPalette == cc.args.palette

CCPoints == cc.args.iter.pts

\* The call has returned, its palette was not empty, and the iterates
\* escape at (0-indexed) step k < |P|: k fairly-close iterates, then one
\* that is not.
CCEscapedAt(k) ==
    /\ cc.pc = "done"
    /\ CCPalette # <<>>
    /\ k = NearPrefix(CCPoints)
    /\ k < Len(CCPoints)
    /\ k < Len(CCPalette)

\* C1 as stated: when the iterates escape at step k < |P| (0-indexed),
\* choose_color returns P[k].
C1_Original ==
    \A k \in 0..MaxPoints : CCEscapedAt(k) => cc.acc = CCPalette[k + 1]

\* C1 amended: when the iterates escape at step k < |P| (0-indexed),
\* choose_color returns P[k-1] for k >= 1 and P[0] for k = 0.
C1_EscapeColor ==
    \A k \in 0..MaxPoints :
        CCEscapedAt(k) => cc.acc = CCPalette[IF k = 0 THEN 1 ELSE k]

C1_Witness == CCEscapedAt(2) /\ Len(CCPalette) = 4 /\ cc.acc = 1

\* i fairly-close points followed by one escaped point, and nothing else.
NearThenFar(i) ==
    /\ Len(CCPoints) = i + 1
    /\ NearPrefix(CCPoints) = i

Min(a, b) == IF a < b THEN a ELSE b

\* C2: for i fairly-close points followed by one escaped point choose_color
\* returns P[0] when i = 0 and otherwise the item paired with the last
\* fairly-close iterate, saturating at the last item once i >= |P|; for
\* P = [0,1,2,3] and i = 0..5 the results are 0,0,1,2,3,3.
C2_Saturation ==
    \A i \in 0..MaxPoints :
        (cc.pc = "done" /\ CCPalette # <<>> /\ NearThenFar(i)) =>
            /\ cc.acc = CCPalette[IF i = 0 THEN 1 ELSE Min(i, Len(CCPalette))]
            /\ (CCPalette = <<0, 1, 2, 3>> /\ i <= 5) =>
                   cc.acc = <<0, 0, 1, 2, 3, 3>>[i + 1]

C2_Witness ==
    /\ cc.pc = "done" /\ CCPalette = <<0, 1, 2, 3>> /\ NearThenFar(5)
    /\ cc.acc = 3

----------------------------------------------------------------------------
\* Grid::new on its own (SpecGrid)

InitGrid ==
    /\ CtlIdle
    /\ cc = CCIdle0 /\ gen = GenIdle0 /\ smp = SmpIdle0
    /\ \E col \in 0..MaxDim, row \in 0..MaxDim, min \in GridPts, max \in GridPts :
           gn = [GNIdle EXCEPT !.col = col, !.row = row, !.min = min, !.max = max]

GridCall ==
    /\ gn.pc = "start"
    /\ \E checked \in BOOLEAN :
           LET g == Grid_new(gn.col, gn.row, gn.min, gn.max, checked)
           IN  gn' = [gn EXCEPT !.pc = IF g.panic THEN "panic" ELSE "done",
                                !.rows = g.rows]
    /\ UNCHANGED <<cc, gen, smp, ctl>>

NextGrid == GridCall

SpecGrid == InitGrid /\ [][NextGrid]_vars

\* a >= b on finite f64 values.
FGe(a, b) == a = b \/ FLt(b, a)

\* a - b exactly, as an unrounded m * 2^e.
ExactDiff(a, b) ==
    LET e == Min(a.e, b.e)
    IN  Norm(a.m * Pow2(a.e - e) - b.m * Pow2(b.e - e), e)

\* On one axis, hi - lo and its division by n are both exact in f64.
AxisExact(lo, hi, n) ==
    LET d == FSub(hi, lo)
        q == FDiv(d, FromInt(n))
    IN  d = ExactDiff(hi, lo) /\ Norm(q.m * n, q.e) = d

\* The steps of C3, computed as the claim states them.
C3XStep == FDiv(FSub(gn.max.re, gn.min.re), FromInt(gn.col - 1))

C3YStep == FDiv(FSub(gn.max.im, gn.min.im), FromInt(gn.row - 1))

\* Grid::new returned, for columns >= 2 and rows >= 2.
C3Returned == gn.pc = "done" /\ gn.col >= 2 /\ gn.row >= 2

\* `rows` rows of `columns` cells, cell (r, c) the interpolated point.
C3Cells ==
    /\ Len(gn.rows) = gn.row
    /\ \A r \in 1..gn.row :
        /\ Len(gn.rows[r]) = gn.col
        /\ \A c \in 1..gn.col :
             gn.rows[r][c] =
                 Pt(FAdd(gn.min.re, FMul(FromInt(c - 1), C3XStep)),
                    FAdd(gn.min.im, FMul(FromInt(r - 1), C3YStep)))

\* Grid::new(3, 3, (0,0), (2,2)): corners (0,0),(2,0),(0,2),(2,2), centre (1,1).
C3Example ==
    (gn.col = 3 /\ gn.row = 3 /\ gn.min = Pt(F0, F0)
        /\ gn.max = Pt(FromInt(2), FromInt(2))) =>
        /\ gn.rows[1][1] = Pt(F0, F0)
        /\ gn.rows[1][3] = Pt(FromInt(2), F0)
        /\ gn.rows[3][1] = Pt(F0, FromInt(2))
        /\ gn.rows[3][3] = Pt(FromInt(2), FromInt(2))
        /\ gn.rows[2][2] = Pt(FromInt(1), FromInt(1))

\* C3 as stated: rows x columns cells, cell (r, c) = (min.real + c*x_step,
\* min.imag + r*y_step), and in particular cell (0,0) is min and cell
\* (rows-1, columns-1) is max.
C3_Original ==
    C3Returned =>
        /\ C3Cells
        /\ gn.rows[1][1] = gn.min
        /\ gn.rows[gn.row][gn.col] = gn.max
        /\ C3Example

\* C3 amended: rows x columns cells, cell (r, c) = (min.real + c*x_step,
\* min.imag + r*y_step) in f64 arithmetic; cell (0,0) is min; the last
\* cell's coordinate on an axis is max on that axis whenever max - min and
\* its division by count - 1 are exact in f64, as in the 3x3 example.
C3_Grid ==
    C3Returned =>
        /\ C3Cells
        /\ gn.rows[1][1] = gn.min
        /\ AxisExact(gn.min.re, gn.max.re, gn.col - 1) =>
               gn.rows[gn.row][gn.col].re = gn.max.re
        /\ AxisExact(gn.min.im, gn.max.im, gn.row - 1) =>
               gn.rows[gn.row][gn.col].im = gn.max.im
        /\ C3Example

C3_Witness ==
    /\ C3Returned /\ gn.col = 7 /\ gn.row = 4
    /\ gn.min = Pt(Dy(-9, 2), Dy(-3, 1)) /\ gn.max = Pt(Dy(3, 2), Dy(3, 1))
    /\ gn.rows[4][7] = gn.max

\* C4: Grid::new aborts, returning no grid, whenever min.real >= max.real or
\* min.imag >= max.imag, whatever the column and row counts.
C4_BadBoxPanics ==
    (gn.pc # "start" /\ (FGe(gn.min.re, gn.max.re) \/ FGe(gn.min.im, gn.max.im)))
        => gn.pc = "panic" /\ gn.rows = <<>>

C4_Witness ==
    /\ gn.pc = "panic" /\ gn.col = 3 /\ gn.row = 3
    /\ gn.min.re = gn.max.re /\ FLt(gn.min.im, gn.max.im)

----------------------------------------------------------------------------
\* A generator and the sequence it returns (SpecGen)

InitGen ==
    /\ CtlIdle
    /\ cc = CCIdle0 /\ gn = GNIdle /\ smp = SmpIdle0
    /\ \E z \in GenPts, p \in GenPts :
           \E g \in {Mandelbrot(z), Julia(z)} : gen = GenIdle(g, p)

\* let set = g.generate(p)
GenGenerate ==
    /\ gen.pc = "start"
    /\ gen' = [gen EXCEPT !.pc = "iter", !.it = generate(gen.g, gen.p)]
    /\ UNCHANGED <<cc, gn, smp, ctl>>

\* set.next()
GenNext ==
    /\ gen.pc = "iter"
    /\ Len(gen.out) < MaxPulls
    /\ LET n == IterNext(gen.it)
       IN  gen' = [gen EXCEPT !.it = n.it,
                              !.out = IF n.some THEN Append(gen.out, n.val)
                                      ELSE gen.out]
    /\ UNCHANGED <<cc, gn, smp, ctl>>

NextGen == GenGenerate \/ GenNext

SpecGen == InitGen /\ [][NextGen]_vars

\* The n-fold application of next(c, .) to z.
RECURSIVE NextN(_, _, _)
NextN(c, z, n) == IF n = 0 THEN z ELSE next(c, NextN(c, z, n - 1))

\* 0.001, and the expected real parts of mandelbrot_test.
Milli == FDiv(FromInt(1), FromInt(1000))

C10Expected == <<Dy(1, 1), Dy(3, 2), Dy(17, 4), Dy(417, 8)>>

\* C10: the n-th element of Mandelbrot::new(z).generate(p) is the n-fold
\* application of next(p, .) to z, the first being next(p, z); for
\* z = (0,0), p = (0.5,0) the first four real parts are 0.5, 0.75, 1.0625,
\* 1.62890625, each within 0.001 squared error of the test's values.
C10_MandelbrotSequence ==
    gen.g.kind = "mandelbrot" =>
        /\ \A n \in 1..Len(gen.out) : gen.out[n] = NextN(gen.p, gen.g.z, n)
        /\ (gen.g.z = Pt(F0, F0) /\ gen.p = Pt(Dy(1, 1), F0)) =>
               \A n \in 1..Min(4, Len(gen.out)) :
                   /\ gen.out[n].re = C10Expected[n]
                   /\ LET val == FSub(C10Expected[n], gen.out[n].re)
                      IN  FLt(FMul(val, val), Milli)

C10_Witness ==
    /\ gen.g = Mandelbrot(Pt(F0, F0)) /\ gen.p = Pt(Dy(1, 1), F0)
    /\ Len(gen.out) = 4
    /\ gen.out[1] = Pt(Dy(1, 1), F0) /\ gen.out[4].re = Dy(417, 8)

----------------------------------------------------------------------------
\* The parallel sampler (SpecSample)

InitSample ==
    /\ CtlIdle
    /\ cc = CCIdle0 /\ gn = GNIdle /\ gen = GenIdle0
    /\ \E col \in 2..SampleMax, row \in {2}, box \in SampleBoxes,
          g \in SampleGenerators, pal \in SamplePalettes :
           smp = SmpIdle(Grid_new(col, row, box[1], box[2], TRUE).rows, g, pal)

\* grid.0.clone().into_par_iter(): one task per cell of the copy.
SampleCall ==
    /\ smp.pc = "start"
    /\ smp' = [smp EXCEPT !.pc = "running", !.items = smp.grid,
                          !.todo = Cells(smp.grid)]
    /\ UNCHANGED <<cc, gn, gen, ctl>>

\* A free worker takes any task that has not been started.
SampleTake ==
    /\ smp.pc = "running"
    /\ Cardinality(smp.running) < NumWorkers
    /\ \E cell \in smp.todo :
           smp' = [smp EXCEPT !.todo = @ \ {cell}, !.running = @ \cup {cell}]
    /\ UNCHANGED <<cc, gn, gen, ctl>>

\* A running task finishes: make_image of its cell, collected.
SampleFinish ==
    /\ smp.pc = "running"
    /\ \E cell \in smp.running :
         \E call \in {make_image(smp.generator, smp.palette,
                                 smp.items[cell[1]][cell[2]])} :
           IF call.pc = "panic"
           THEN smp' = [smp EXCEPT !.pc = "panic"]
           ELSE smp' = [smp EXCEPT !.running = @ \ {cell},
                                   !.out = Collect(smp.items, @, cell, call.acc)]
    /\ UNCHANGED <<cc, gn, gen, ctl>>

\* Every task has finished: the collected Grid is returned.
SampleReturn ==
    /\ smp.pc = "running"
    /\ smp.todo = {} /\ smp.running = {}
    /\ smp' = [smp EXCEPT !.pc = "returned",
                          !.result = [r \in 1..Len(smp.items) |->
                                        [c \in 1..Len(smp.items[r]) |->
                                           smp.out[<<r, c>>]]]]
    /\ UNCHANGED <<cc, gn, gen, ctl>>

NextSample == SampleCall \/ SampleTake \/ SampleFinish \/ SampleReturn

SpecSample == InitSample /\ [][NextSample]_vars

\* C8: sample returns a grid of the input's shape whose cell (r, c) is
\* choose_color(palette.get(), generator.generate(grid[r][c])), whatever the
\* order and interleaving of the per-cell tasks, and leaves the input grid,
\* the generator and the palette as they were passed.
C8_Sample ==
    /\ smp.grid = smp.args.grid
    /\ smp.generator = smp.args.generator
    /\ smp.palette = smp.args.palette
    /\ smp.pc = "returned" =>
        /\ Len(smp.result) = Len(smp.args.grid)
        /\ \A r \in 1..Len(smp.args.grid) :
            /\ Len(smp.result[r]) = Len(smp.args.grid[r])
            /\ \A c \in 1..Len(smp.args.grid[r]) :
                 smp.result[r][c] =
                     choose_color(Palette_get(smp.args.palette),
                                  generate(smp.args.generator,
                                           smp.args.grid[r][c])).acc

C8_Witness ==
    /\ smp.pc = "returned" /\ Len(smp.result) = 2 /\ Len(smp.result[1]) = 2
    /\ smp.result[1][1] # smp.result[2][2]

----------------------------------------------------------------------------
\* The zoom controller under its callbacks

\* The zooms of one run.
MaxZooms == 2

\* Where the cursor goes: the two opposite corners of the surface and one
\* point inside it, in window coordinates (y grows downwards).
CursorPts == {<<0, RGB_HEIGHT>>, <<RGB_WIDTH, 0>>, <<1, 1>>}

\* Pixel (x, y) lies on the outline of the rectangle between a and b.
OnOutline(x, y, a, b) ==
    LET sx == IF a.x < b.x THEN a.x ELSE b.x
        ex == IF a.x < b.x THEN b.x ELSE a.x
        sy == IF a.y < b.y THEN a.y ELSE b.y
        ey == IF a.y < b.y THEN b.y ELSE a.y
    IN  \/ (x \in sx..ex /\ y \in {sy, ey})
        \/ (x \in {sx, ex} /\ y \in sy..ey)

\* The buffer handed to a render callback in Dragging still shows an
\* outline pixel of an earlier frame, off the outline of this one.
StaleOutline(rs, img) ==
    /\ rs.tag = "Dragging"
    /\ \E i \in 1..Len(img.pixels) :
         /\ img.pixels[i] = highlight_color
         /\ rs.image.pixels[i] # highlight_color
         /\ ~OnOutline((i - 1) % img.width, (i - 1) \div img.width,
                       rs.initial_click, rs.current)

\* What a left release in Dragging ends: the drag rectangle and the view.
DragOf(rs) ==
    [tag |-> "drag", initial_click |-> rs.initial_click, current |-> rs.current,
     dims |-> rs.dims]

\* The canvas calls the input handler with one event.
Input(ev) ==
    LET zoom == ev.kind = "LeftRelease" /\ render_state.tag = "Dragging"
    IN  /\ panicked = "none"
        /\ zoom => zooms < MaxZooms
        /\ \E r \in {handle_input(info, initial_dims, render_state, ev)} :
            /\ render_state' = r.render_state
            /\ last' = [op |-> ev.kind, ret |-> r.ret,
                        drag |-> IF zoom THEN DragOf(render_state)
                                 ELSE IF ev.kind = "CursorMoved"
                                 THEN [tag |-> "cursor", x |-> ev.x, y |-> ev.y]
                                 ELSE NoDrag]
        /\ zooms' = IF zoom THEN zooms + 1 ELSE zooms
        /\ UNCHANGED <<initial_dims, generator, image, panicked, cc, gn, gen, smp>>

LeftPress == Input([kind |-> "LeftPress"])

LeftRelease == Input([kind |-> "LeftRelease"])

RightPress == Input([kind |-> "RightPress"])

CursorMoved == \E p \in CursorPts : Input([kind |-> "CursorMoved", x |-> p[1], y |-> p[2]])

\* Any other window event (a right release, a key, a resize).
OtherWindowEvent == Input([kind |-> "RightRelease"])

\* An event that is not a window event.
DeviceEvent == Input([kind |-> "DeviceEvent"])

\* The canvas calls the render callback with the state and its buffer.
Render ==
    /\ panicked = "none"
    /\ \E r \in {zoomable_canvas_render(generator, RGBPalette(OrRd9),
                                         render_state, image)} :
        /\ render_state' = r.render_state
        /\ image' = r.image
        /\ panicked' = r.panic
    /\ last' = [op |-> "Render", ret |-> FALSE,
                drag |-> IF StaleOutline(render_state, image)
                         THEN [tag |-> "stale"] ELSE NoDrag]
    /\ UNCHANGED <<initial_dims, generator, zooms, cc, gn, gen, smp>>

Init ==
    /\ cc = CCIdle0 /\ gn = GNIdle /\ gen = GenIdle0 /\ smp = SmpIdle0
    /\ \E g \in MainGenerators : CtlNew(g)

Next ==
    \/ LeftPress \/ LeftRelease \/ RightPress \/ CursorMoved
    \/ OtherWindowEvent \/ DeviceEvent \/ Render

Spec == Init /\ [][Next]_vars
----------------------------------------------------------------------------
\* Claims about the zoom controller

C5Allowed ==
    {<<"Recalc", "Done", "Render">>, <<"Done", "Dragging", "LeftPress">>,
     <<"Dragging", "Recalc", "LeftRelease">>, <<"Done", "Recalc", "RightPress">>}

\* C5: the controller starts in Recalc(initial view), and whatever the
\* interleaving of input and render callbacks, the variant of the state
\* changes only from Recalc to Done by a render callback, from Done to
\* Dragging by a left press, from Dragging to Recalc by a left release and
\* from Done to Recalc by a right press.
C5_Lifecycle ==
    /\ render_state = Recalc(initial_dims.min, initial_dims.max)
    /\ [][render_state'.tag # render_state.tag =>
             <<render_state.tag, render_state'.tag, last'.op>> \in C5Allowed]_vars

\* A whole cycle: a zoom was made and its view rendered.
C5_Witness == zooms >= 1 /\ render_state.tag = "Done" /\ last.op = "Render"

\* A position as the cursor-move handler leaves it.
C6FromCursor(pos) == pos = OnCursorMoved(info, pos.virtual_x, pos.virtual_y)

\* The last callback was a left release that ended a drag over the whole
\* surface, anchor at one corner and cursor at the opposite one, both
\* positions set by the cursor-move handler.
C6FullSurface ==
    /\ last.drag.tag = "drag"
    /\ C6FromCursor(last.drag.initial_click)
    /\ C6FromCursor(last.drag.current)
    /\ {last.drag.initial_click.x, last.drag.current.x} = {0, RGB_WIDTH}
    /\ {last.drag.initial_click.y, last.drag.current.y} = {0, RGB_HEIGHT}

FAbs(x) == IF x.k = "fin" /\ x.m < 0 THEN FNeg(x) ELSE x

\* |a - b| <= 2^(3 - MantBits) * max(|lo|, |hi|), computed exactly: eight
\* rounding units of the larger bound.
C6Within(a, b, lo, hi) ==
    LET big == IF FLt(FAbs(lo), FAbs(hi)) THEN FAbs(hi) ELSE FAbs(lo)
        tol == Norm(big.m, big.e + 3 - MantBits)
        d   == ExactDiff(a, b)
    IN  ExactDiff(Norm(Abs(d.m), d.e), tol).m <= 0

\* C6 as stated: the full-surface drag yields Recalc with a bounding box
\* equal to the one on display.
C6_Original ==
    C6FullSurface =>
        /\ render_state.tag = "Recalc"
        /\ render_state.min = last.drag.dims.min
        /\ render_state.max = last.drag.dims.max

\* C6: a left press and a left release whose drag rectangle spans the full
\* surface yield Recalc with the minimum of the box on display and, on each
\* axis, a maximum within eight rounding units (of the larger bound of the
\* axis) of the maximum on display.
C6_IdentityZoom ==
    C6FullSurface =>
        /\ render_state.tag = "Recalc"
        /\ render_state.min = last.drag.dims.min
        /\ C6Within(render_state.max.re, last.drag.dims.max.re,
                    last.drag.dims.min.re, last.drag.dims.max.re)
        /\ C6Within(render_state.max.im, last.drag.dims.max.im,
                    last.drag.dims.min.im, last.drag.dims.max.im)

\* The identity zoom of a view that it does not reproduce bit for bit.
C6_Witness ==
    C6FullSurface /\ render_state.tag = "Recalc"
        /\ render_state.max # last.drag.dims.max

\* C7: a right press received in Done yields Recalc(min0, max0), the box
\* given to CanvasState::new, and returns true, whatever zooms, cursor moves
\* and renders came before; no callback modifies the stored initial box.
C7_Reset ==
    /\ initial_dims = MainBox(generator)
    /\ [][/\ initial_dims' = initial_dims
          /\ (last'.op = "RightPress" /\ render_state.tag = "Done") =>
                /\ render_state' = Recalc(MainBox(generator).min,
                                          MainBox(generator).max)
                /\ last'.ret]_vars

\* A reset of a zoomed view.
C7_Witness ==
    /\ zooms >= 1 /\ last.op = "RightPress" /\ last.ret
    /\ render_state = Recalc(initial_dims.min, initial_dims.max)

\* The bounding box the state carries.
C9Box ==
    IF render_state.tag = "Dragging" THEN render_state.dims
    ELSE CanvasDims(render_state.min, render_state.max)

\* C9: in every reachable state the bounding box carried by Recalc, Done or
\* Dragging has min.real < max.real and min.imag < max.imag, and the render
\* callback never fails the assertion of Grid::new.
C9_BoxValid == GridAsserts(C9Box.min, C9Box.max) /\ panicked # "Grid::new"

----------------------------------------------------------------------------
\* Degenerate grid dimensions

\* C11: Grid::new called with columns = 1 or rows = 1 and a valid bounding
\* box terminates the operation at once and returns no grid.
C11_DegeneratePanics ==
    (/\ gn.pc # "start" /\ gn.col >= 1 /\ gn.row >= 1
     /\ (gn.col = 1 \/ gn.row = 1) /\ GridAsserts(gn.min, gn.max))
        => gn.pc = "panic" /\ gn.rows = <<>>

----------------------------------------------------------------------------
\* The render callback, arm by arm

\* C12: a render callback called in Recalc(min, max) with a valid box ends
\* in Done(min, max, zero Position, image): the box is the one Recalc
\* carried, the Position is all zeros and the retained image equals the
\* output buffer just rendered, pixel for pixel; so the controller is never
\* in Recalc when a render callback has returned.
C12_RecalcToDone ==
    /\ []((last.op = "Render" /\ panicked = "none") => render_state.tag # "Recalc")
    /\ [][(/\ last'.op = "Render" /\ render_state.tag = "Recalc"
           /\ GridAsserts(render_state.min, render_state.max)) =>
             /\ panicked' = "none"
             /\ render_state'.tag = "Done"
             /\ render_state'.min = render_state.min
             /\ render_state'.max = render_state.max
             /\ render_state'.pos = [virtual_x |-> 0, virtual_y |-> 0, x |-> 0, y |-> 0]
             /\ render_state'.image = image'
             /\ Len(image'.pixels) = RGB_WIDTH * RGB_HEIGHT]_vars

\* A zoomed view was rendered: the buffer is no longer black and is retained.
C12_Witness ==
    /\ last.op = "Render" /\ render_state.tag = "Done" /\ zooms >= 1
    /\ render_state.image = image
    /\ \E i \in 1..Len(image.pixels) : image.pixels[i] # Black

----------------------------------------------------------------------------
\* Dragging inside the window

\* The cursor moves to a position inside the window: on its first or last
\* column or the one next to the first, and likewise for the rows.
CursorMovedInside ==
    \E x \in {0, 1, RGB_WIDTH - 1}, y \in {0, 1, RGB_HEIGHT - 1} :
        Input([kind |-> "CursorMoved", x |-> x, y |-> y])

NextDrag == LeftPress \/ CursorMovedInside \/ Render

\* The controller from its construction, with the cursor kept inside the
\* window and no button released.
SpecDrag == Init /\ [][NextDrag]_vars

----------------------------------------------------------------------------
\* The arms of handle_input

\* The (event, state) pairs handle_input has an arm for.
C14Handled ==
    {<<"LeftPress", "Done">>, <<"CursorMoved", "Done">>,
     <<"CursorMoved", "Dragging">>, <<"LeftRelease", "Dragging">>,
     <<"RightPress", "Done">>}

C14Events ==
    {"LeftPress", "LeftRelease", "RightPress", "CursorMoved", "RightRelease",
     "DeviceEvent"}

\* C14: for every (event, state) pair other than left-press/Done,
\* cursor-move/Done, cursor-move/Dragging, left-release/Dragging and
\* right-press/Done, handle_input returns false and leaves the whole
\* controller state as it was.
C14_NoOp ==
    [][(/\ last'.op \in C14Events
        /\ <<last'.op, render_state.tag>> \notin C14Handled) =>
          /\ ~last'.ret
          /\ render_state' = render_state
          /\ initial_dims' = initial_dims]_vars

\* A right press that found a zoomed view still waiting to be rendered.
C14_Witness ==
    /\ last.op = "RightPress" /\ ~last.ret /\ zooms >= 1
    /\ render_state.tag = "Recalc"
    /\ render_state.min # initial_dims.min

\* The Position a cursor move to the last event's (x, y) must leave, in
\* integers: virtual (x, y), pixel (x * dpi, (height - y) * dpi).
C15Position ==
    [virtual_x |-> last.drag.x, virtual_y |-> last.drag.y,
     x |-> last.drag.x * Dpi, y |-> (RGB_HEIGHT - last.drag.y) * Dpi]

\* C15: a cursor-move event (x, y) received in Done or Dragging sets only
\* the embedded current Position, to virtual (x, y) and pixel
\* (x * dpi, (height - y) * dpi); the variant, the bounding box, the drag
\* anchor and the image stay as they were, and it returns false.
C15_CursorMove ==
    [][(last'.op = "CursorMoved" /\ render_state.tag \in {"Done", "Dragging"}) =>
         /\ ~last'.ret
         /\ render_state' =
              IF render_state.tag = "Done"
              THEN [render_state EXCEPT !.pos = C15Position']
              ELSE [render_state EXCEPT !.current = C15Position']
         /\ image' = image
         /\ initial_dims' = initial_dims]_vars

\* The cursor moved away from the anchor of a drag.
C15_Witness ==
    /\ last.op = "CursorMoved" /\ render_state.tag = "Dragging"
    /\ render_state.current = C15Position
    /\ render_state.current # render_state.initial_click
    /\ render_state.current.y # render_state.current.virtual_y

----------------------------------------------------------------------------
\* choose_color on the unbounded sequences of the generators

InitClassify ==
    /\ CtlIdle
    /\ gn = GNIdle /\ gen = GenIdle0 /\ smp = SmpIdle0
    /\ \E P \in Palettes, z \in GenPts, p \in GenPts :
         \E g \in {Mandelbrot(z), Julia(z)} : cc = CCIdle(P, generate(g, p))

SpecClassify == InitClassify /\ [][NextColor]_vars

\* The first n items of an iterator are all fairly close.
RECURSIVE AllNear(_, _)
AllNear(it, n) ==
    n = 0 \/ (/\ IterNext(it).some
              /\ fairly_close(IterNext(it).val)
              /\ AllNear(IterNext(it).it, n - 1))

\* C16: for every non-empty palette P and every unbounded iterate sequence
\* choose_color returns, having pulled at most |P| iterates: the call never
\* panics, the iterates pulled and the palette items left never exceed |P|
\* together, and every round of the fold either ends the call or leaves
\* fewer palette items, so the call ends within |P| + 1 rounds. When the
\* first |P| iterates are all fairly close it returns the last item of P.
C16_Terminates ==
    /\ [](cc.args.palette # <<>> =>
            /\ cc.pc # "panic"
            /\ cc.pulls + Len(cc.palette) <= Len(cc.args.palette)
            /\ (cc.pc = "done" /\ AllNear(cc.args.iter, Len(cc.args.palette))) =>
                   cc.acc = cc.args.palette[Len(cc.args.palette)])
    /\ [][/\ (cc.pc = "start" /\ cc.args.palette # <<>>) => cc'.pc = "fold"
          /\ cc.pc = "fold" =>
                \/ cc'.pc = "done"
                \/ cc'.pc = "fold" /\ Len(cc'.palette) < Len(cc.palette)]_vars

\* A point that never escaped within the palette: every pair was pulled.
C16_Witness ==
    /\ cc.pc = "done" /\ cc.args.iter.kind = "scan"
    /\ Len(cc.args.palette) = MaxPalette
    /\ cc.pulls = MaxPalette
    /\ cc.acc = MaxPalette - 1

----------------------------------------------------------------------------
\* The outline and the bounds of the buffer

\* A position the cursor-move handler made from a position reported inside
\* the window.
C17Inside(pos) ==
    /\ pos.virtual_x \in 0..(RGB_WIDTH - 1)
    /\ pos.virtual_y \in 0..(RGB_HEIGHT - 1)
    /\ pos = OnCursorMoved(info, pos.virtual_x, pos.virtual_y)

\* C17: with anchor and current position reported inside the window, the
\* render callback in Dragging never indexes the output buffer out of
\* bounds.
C17_InBounds ==
    (/\ render_state.tag = "Dragging"
     /\ C17Inside(render_state.initial_click)
     /\ C17Inside(render_state.current)) => panicked # "index"

====
